---- MODULE Spec2Model ----
(***************************************************************************)
(* The overlay pages of static-fm-app as one state machine.                *)
(*                                                                         *)
(*   page = "analysis"  src/unnamed/part_001  (AudioAnalysis, reconnect)   *)
(*   page = "analyser"  src/unnamed/part_000  (AnalyserNode, reconnect)    *)
(*   page = "polling"   src/src/routes/+page.svelte (AnalyserNode, poll)   *)
(*                                                                         *)
(* Everything runs on one event loop: an action is one task or one         *)
(* continuation of an async function between two awaits.  Media events,    *)
(* timers, animation frames and promise settlements are separate tasks     *)
(* and interleave freely.                                                  *)
(***************************************************************************)
EXTENDS Naturals, Sequences, FiniteSets

\* ------------------------------------------------------------- bounds
\* initAudio calls that may be started in one run (each creates at most one
\* audio element, context and analyser, which carry the call's number).
MaxInits == 4
\* Undelivered media events one element may accumulate from the network.
MaxEvents == 1

\* Host-bridge calls (setAlwaysOnTop, setMousePassthrough, changeThemeColor)
\* made in one run, the one of onMount included.
MaxBridgeCalls == 4
\* fetchCurrentSong calls that may be in flight together.
MaxFetches == 2
\* The loudest input magnitude, on the scale on which 255 is the analyser's
\* ceiling (maxDecibels); a louder input is clipped.
MaxLevel == 260
\* The largest bin count AudioAnalysis.getFrequencies may return.
MaxBins == 65

\* ------------------------------------------------------------- constants
\* new Float32Array(64), slice(0, 64): the bars shown.
BarCount == 64
\* analyser.fftSize = 256
fftSize == 256
\* analyser.smoothingTimeConstant = 0.8, in tenths (also the default of an
\* AnalyserNode, which +page.svelte leaves as it is).
smoothingTimeConstant == 8

Calls == 1..MaxInits
Elems == 1..MaxInits
\* requestAnimationFrame handles: one per live loop and a cancelled one still
\* held in animationFrameId.
FrameIds == 1..(MaxInits + 1)

Pages == {"analysis", "analyser", "polling"}
ReconnectPages == {"analysis", "analyser"}

VARIABLES
  page,              \* which page is mounted
  phase,             \* "created" | "mounted" | "destroyed" (cleanup has run)
  pc,                \* initAudio call -> "idle" | "awaitClose" | "awaitResume" | "done"
  audioContext,      \* 0 = null, else the number of the call that built it
  analyser,          \* 0 = null
  audioAnalysis,     \* 0 = null
  audioElement,      \* 0 = null, else the number of the call that built it
  animationFrameId,  \* 0 = null, else the handle last returned
  isPlaying,
  pending,           \* handles of the animation frames requested and not yet run
  retryTimers,       \* pending setTimeout(reconnectAudio, 5000)
  paused,            \* element -> its paused attribute
  readyState,        \* audioElement.readyState: 0 (HAVE_NOTHING) | 4 (HAVE_ENOUGH_DATA)
  mediaError,        \* audioElement.error is set
  events,            \* element -> media events queued and not yet dispatched
  isPinned,
  isMousePassthrough,
  themeColor,
  currentSong,       \* [title, artist], each a JavaScript value
  inbound,           \* the metadata payload handled last (NoPayload before the first)
  bridge,            \* the host-bridge calls made so far, in call order
  surface,           \* what the window (appWindow) was last told (<<>>: nothing yet)
  host,              \* what the host process (invoke) was last told (<<>>: nothing yet)
  listening,         \* the song-info-update subscription: "off" | "on" | "unlistening"
  fetching,          \* fetchCurrentSong calls in flight
  fetched,           \* how the fetchCurrentSong call that ended last ended
  songInterval,      \* setInterval(fetchCurrentSong, 10000) is armed
  smoothed,          \* analyser: the smoothed magnitude of its last block
  signal,            \* the magnitude of the audio now reaching the analyzer
  binCount,          \* the length of the vector the analyzer returns
  analyzerFails,     \* AudioAnalysis now throws when asked
  frequencyValues    \* the vector published last (bars in part_000, +page.svelte)

audioVars == <<pc, audioContext, analyser, audioAnalysis, audioElement,
               animationFrameId, isPlaying, pending, retryTimers,
               paused, readyState, mediaError, events, smoothed>>
renderVars == <<signal, binCount, analyzerFails, frequencyValues>>
windowVars == <<isPinned, isMousePassthrough, themeColor, bridge, surface, host>>
songVars == <<currentSong, inbound, listening, fetching, fetched, songInterval>>
vars == <<page, phase, audioVars, renderVars, windowVars, songVars>>

\* ------------------------------------------------------------- helpers
Started == Cardinality({c \in Calls : pc[c] # "idle"})
InFlight == {c \in Calls : pc[c] \in {"awaitClose", "awaitResume"}}

\* cancelAnimationFrame(id): a handle that is no longer pending is ignored.
cancelAnimationFrame(id, frames) == frames \ {id}

\* requestAnimationFrame returns a handle never returned before.  Handles are
\* opaque: the code stores the last one in animationFrameId and passes it to
\* cancelAnimationFrame, nothing else, so all that is observable is which
\* pending frame, if any, animationFrameId names.  Handles are therefore
\* named up to renaming.  Called from initAudio (running = 0) the result is
\* the least handle held nowhere.  Called from the running frame `running`,
\* whose handle is spent, the new frame becomes the one animationFrameId
\* names: it takes the name animationFrameId has if that names a pending
\* frame (which then carries the spent name), else the spent name.
requestAnimationFrame(held, running) ==
  IF running = 0
    THEN CHOOSE g \in FrameIds :
           g \notin held /\ \A h \in FrameIds : h \notin held => g <= h
    ELSE IF animationFrameId \in pending THEN animationFrameId ELSE running

\* HTMLMediaElement.pause(): sets paused and, if the element was not paused,
\* queues 'pause' (the task that fires it also rejects a pending play()
\* promise, whose handler assigns isPlaying = false as the listener does).
pauseEvents(ev, pz, e) ==
  IF e = 0 \/ pz[e] THEN ev ELSE [ev EXCEPT ![e] = Append(@, "pause")]
pausePaused(pz, e) == IF e = 0 THEN pz ELSE [pz EXCEPT ![e] = TRUE]

\* ------------------------------------------------------------- values
\* JavaScript values a metadata field may take: undefined (the field is
\* absent), null, or a string.
Undefined == [type |-> "undefined", value |-> ""]
Null == [type |-> "null", value |-> ""]
Str(s) == [type |-> "string", value |-> s]
FieldValues == {Undefined, Null, Str(""), Str("X")}
Payloads == [title : FieldValues, artist : FieldValues]
NoPayload == [title |-> Str("<none>"), artist |-> Str("<none>")]

\* a ?? b: only undefined and null give way to the default.
OrElse_nullish(a, b) == IF a = Undefined \/ a = Null THEN b ELSE a

\* The falsy values among them.
Falsy(v) == v = Undefined \/ v = Null \/ v = Str("")
\* a || b
OrElse(a, b) == IF Falsy(a) THEN b ELSE a

Colors == {"#3498db", "#e74c3c"}

\* The state of a page when its script has run, before onMount.
Construction ==
  /\ page \in Pages
  /\ phase = "created"
  /\ pc = [c \in Calls |-> "idle"]
  /\ audioContext = 0
  /\ analyser = 0
  /\ audioAnalysis = 0
  /\ audioElement = 0
  /\ animationFrameId = 0
  /\ isPlaying = FALSE
  /\ pending = {}
  /\ retryTimers = 0
  /\ paused = [e \in Elems |-> TRUE]
  /\ readyState = 0
  /\ mediaError = FALSE
  /\ events = [e \in Elems |-> <<>>]
  /\ isPinned = TRUE
  /\ isMousePassthrough = FALSE
  /\ themeColor = "#3498db"
  /\ currentSong = [title |-> Str("Loading..."), artist |-> Str("")]
  /\ inbound = NoPayload
  /\ bridge = <<>>
  /\ surface = [onTop |-> <<>>, ignoreCursor |-> <<>>]
  /\ host = [onTop |-> <<>>, passthrough |-> <<>>, color |-> <<>>]
  /\ listening = "off"
  /\ fetching = 0
  /\ fetched = [kind |-> "none", promise |-> "none"]
  /\ songInterval = FALSE
  /\ smoothed = 0
  /\ signal = 0
  /\ analyzerFails = FALSE
  /\ frequencyValues = [i \in 1..BarCount |-> 0]

\* analyser.frequencyBinCount: half the FFT size.
frequencyBinCount == fftSize \div 2

\* The audio pipeline is studied with an analyzer of frequencyBinCount bins.
Init == Construction /\ binCount = frequencyBinCount

\* The render loop is studied for every bin count AudioAnalysis may have.
RenderInit ==
  /\ Construction
  /\ binCount \in IF page = "analysis" THEN 0..MaxBins ELSE {frequencyBinCount}

\* ------------------------------------------------------------- initAudio
\* The held element is dropped without being paused.
releaseHeldPaused_unpaused(pz, e) == pz

\* if (audioElement) { audioElement.pause(); audioElement = null; }
releaseHeldPaused(pz, e) == pausePaused(pz, e)

\* How the promise of an initAudio call settles: the whole body is inside
\* try { } catch { console.error; isPlaying = false }, so it is fulfilled
\* whether or not something was thrown.
initAudioSettles(threw) == "fulfilled"

\* The caller resumes after the call c has settled.  Call 1 is the one of
\* onMount, which does not await it.  Every other call is awaited by
\* reconnectAudio inside try { } catch { setTimeout(reconnectAudio, 5000) }.
callerResumes(c, settled, timers) ==
  IF c # 1 /\ settled = "rejected" THEN timers + 1 ELSE timers

\* The catch block of initAudio.
initAudioCatch(c) ==
  /\ isPlaying' = FALSE
  /\ pc' = [pc EXCEPT ![c] = "done"]
  /\ retryTimers' = callerResumes(c, initAudioSettles(TRUE), retryTimers)

\* part_001, lines 33-67: cancel the frame, release the held element, build
\* the new element and its AudioAnalysis, reach the await.
ConstructAnalysis(c, pz, ev) ==
  \E thrown \in {"no", "analysis"} :
    /\ pending' = IF animationFrameId # 0
                    THEN cancelAnimationFrame(animationFrameId, pending)
                    ELSE pending
    /\ paused' = releaseHeldPaused(pz, audioElement)
    /\ events' = pauseEvents(ev, pz, audioElement)
    /\ audioElement' = c
    /\ readyState' = 0
    /\ mediaError' = FALSE
    /\ IF thrown = "no"
         THEN /\ audioAnalysis' = c
              /\ pc' = [pc EXCEPT ![c] = "awaitResume"]
              /\ UNCHANGED <<isPlaying, retryTimers>>
         ELSE /\ UNCHANGED audioAnalysis
              /\ initAudioCatch(c)
    /\ UNCHANGED <<audioContext, analyser, animationFrameId, smoothed>>

\* part_000, lines 37-73: build the context and analyser, release the held
\* element, build the new one, connect, reach the second await.
ConstructAnalyser(c, pz, ev) ==
  \E thrown \in {"no", "context", "source"} :
    /\ IF thrown = "context"
         THEN /\ paused' = pz
              /\ events' = ev
              /\ UNCHANGED <<audioContext, analyser, audioElement,
                             readyState, mediaError, smoothed>>
         ELSE /\ audioContext' = c
              /\ analyser' = c
              /\ smoothed' = 0
              /\ paused' = releaseHeldPaused(pz, audioElement)
              /\ events' = pauseEvents(ev, pz, audioElement)
              /\ audioElement' = c
              /\ readyState' = 0
              /\ mediaError' = FALSE
    /\ IF thrown = "no"
         THEN /\ pc' = [pc EXCEPT ![c] = "awaitResume"]
              /\ UNCHANGED <<isPlaying, retryTimers>>
         ELSE initAudioCatch(c)
    /\ UNCHANGED <<audioAnalysis, animationFrameId, pending>>

\* The guard at the top of updateVisualization.
LoopOn ==
  CASE page = "analysis" -> audioAnalysis # 0
    [] page = "analyser" -> analyser # 0 /\ audioContext # 0
    [] page = "polling" -> analyser # 0

\* audioElement.play() on element e, then updateVisualization() called
\* directly: the tail of initAudio.  When play() is refused (its promise is
\* rejected at once, the element stays paused) the handler attached with
\* playPromise.catch runs as soon as initAudio returns.
PlayAndVisualize(e, allowed) ==
  /\ paused' = IF allowed THEN [paused EXCEPT ![e] = FALSE] ELSE paused
  /\ events' = IF allowed /\ paused[e] /\ readyState = 4
                 THEN [events EXCEPT ![e] = Append(@, "playing")]
                 ELSE events
  /\ isPlaying' = IF allowed THEN isPlaying ELSE FALSE
  /\ IF LoopOn
       THEN LET g == requestAnimationFrame(pending \cup {animationFrameId}, 0)
            IN /\ animationFrameId' = g
               /\ pending' = pending \cup {g}
       ELSE UNCHANGED <<animationFrameId, pending>>

\* +page.svelte, lines 22-46: initAudio is synchronous and its catch only logs.
PollingInitAudio(c) ==
  \E thrown \in {"no", "context", "source"}, allowed \in BOOLEAN :
    /\ pc' = [pc EXCEPT ![c] = "done"]
    /\ IF thrown = "context"
         THEN UNCHANGED <<audioContext, analyser, audioElement, smoothed>>
         ELSE /\ audioContext' = c
              /\ analyser' = c
              /\ smoothed' = 0
              /\ audioElement' = c
    /\ IF thrown = "no"
         THEN /\ paused' = IF allowed THEN [paused EXCEPT ![c] = FALSE] ELSE paused
              /\ animationFrameId' = requestAnimationFrame({}, 0)
              /\ pending' = {requestAnimationFrame({}, 0)}
         ELSE UNCHANGED <<paused, animationFrameId, pending>>
    /\ UNCHANGED <<audioAnalysis, isPlaying, retryTimers, readyState, mediaError,
                   events>>

\* The synchronous prefix of initAudio, up to its first await.
InitAudio(c, pz, ev) ==
  IF page = "analysis" THEN ConstructAnalysis(c, pz, ev)
  ELSE IF page = "polling" THEN PollingInitAudio(c)
  ELSE IF audioContext # 0
    THEN /\ pc' = [pc EXCEPT ![c] = "awaitClose"]
         /\ paused' = pz
         /\ events' = ev
         /\ UNCHANGED <<audioContext, analyser, audioAnalysis, audioElement,
                        animationFrameId, isPlaying, pending, retryTimers,
                        readyState, mediaError, smoothed>>
    ELSE ConstructAnalyser(c, pz, ev)

\* The synchronous part of setAlwaysOnTop(flag), up to its first await.
SetAlwaysOnTop(flag) ==
  /\ isPinned' = flag
  /\ bridge' = Append(bridge, [op |-> "pin", flag |-> flag, color |-> "",
                               at |-> "surface"])

\* onMount: initAudio(); setAlwaysOnTop(true); then listen('song-info-update')
\* and the probe interval, or fetchCurrentSong() and the polling interval.
OnMount ==
  /\ phase = "created"
  /\ phase' = "mounted"
  /\ InitAudio(1, paused, events)
  /\ SetAlwaysOnTop(TRUE)
  /\ listening' = IF page = "polling" THEN "off" ELSE "on"
  /\ fetching' = IF page = "polling" THEN 1 ELSE 0
  /\ songInterval' = (page = "polling")
  /\ UNCHANGED <<page, isMousePassthrough, themeColor, surface, host,
                 currentSong, inbound, fetched, renderVars>>

\* part_000: await audioContext.close() settles.
AfterClose(c) ==
  /\ pc[c] = "awaitClose"
  /\ \E ok \in BOOLEAN :
       IF ok THEN ConstructAnalyser(c, paused, events)
       ELSE /\ initAudioCatch(c)
            /\ UNCHANGED <<audioContext, analyser, audioAnalysis, audioElement,
                           animationFrameId, pending, paused, readyState,
                           mediaError, events, smoothed>>
  /\ UNCHANGED <<page, phase, renderVars, windowVars, songVars>>

\* await audioContext.resume() / audioAnalysis.resumeIfSuspended() settles:
\* audioElement.play() (a TypeError if audioElement is null), then the first
\* updateVisualization().
AfterResume(c) ==
  /\ pc[c] = "awaitResume"
  /\ \E settled \in {"rejected", "refused", "played"} :
       IF settled # "rejected" /\ audioElement # 0
         THEN /\ PlayAndVisualize(audioElement, settled = "played")
              /\ pc' = [pc EXCEPT ![c] = "done"]
              /\ retryTimers' = callerResumes(c, initAudioSettles(FALSE), retryTimers)
              /\ UNCHANGED <<audioContext, analyser, audioAnalysis, audioElement,
                             readyState, mediaError, smoothed>>
         ELSE /\ initAudioCatch(c)
              /\ UNCHANGED <<audioContext, analyser, audioAnalysis, audioElement,
                             animationFrameId, pending, paused, readyState,
                             mediaError, events, smoothed>>
  /\ UNCHANGED <<page, phase, renderVars, windowVars, songVars>>

\* ------------------------------------------------------------- render loop
\* The input magnitudes considered: silence, a soft tone, a tone above the
\* analyser's ceiling.
Levels == {0, MaxLevel \div 10, MaxLevel}

\* AudioAnalysis.getFrequencies('frequency', -100, -30).values for an analyzer
\* of n bins fed the magnitude level: silence gives zeros, a signal gives every
\* bin a value of its own.
getFrequencies(n, level) == [i \in 1..n |-> IF level = 0 THEN 0 ELSE i]

\* The vector is published as it comes, with no padding.
publishAnalysis_unpadded(values) ==
  IF Len(values) >= BarCount THEN SubSeq(values, 1, BarCount) ELSE values

\* part_001, lines 98-107: values.slice(0, 64) if there are at least 64
\* values, else a new Float32Array(64) with the values set at its start.
publishAnalysis(values) ==
  IF Len(values) >= BarCount
    THEN SubSeq(values, 1, BarCount)
    ELSE [i \in 1..BarCount |-> IF i <= Len(values) THEN values[i] ELSE 0]

\* The new block replaces the smoothed one (no smoothing).
smooth_raw(previous, magnitude) == magnitude

\* The smoothing over time of an AnalyserNode: tau * previous +
\* (1 - tau) * magnitude, in integer arithmetic.
smooth(previous, magnitude) ==
  (smoothingTimeConstant * previous + (10 - smoothingTimeConstant) * magnitude)
    \div 10

\* The conversion of a magnitude to an unsigned byte: clipped to 0..255.
byteOf(magnitude) == IF magnitude > 255 THEN 255 ELSE magnitude

\* analyser.getByteFrequencyData(dataArray) on an analyser whose smoothed block
\* is sm: one value per bin.
getByteFrequencyData(sm) == [k \in 1..frequencyBinCount |-> byteOf(sm)]

\* Array.from(dataArray).slice(0, 64)
publishBytes(dataArray) ==
  SubSeq(dataArray, 1, IF Len(dataArray) < BarCount THEN Len(dataArray) ELSE BarCount)

\* bars after a pull that found the byte b in every bin, tabulated once for
\* every byte (entry b + 1).
barsOf ==
  SubSeq([j \in 1..256 |-> publishBytes(getByteFrequencyData(j - 1))], 1, 256)

\* The catch block does not request the next frame.
framesAfterTick_dropped(threw, f, frames) == IF threw THEN frames \ {f} ELSE frames

\* The frames pending after the tick that ran as frame f: f is spent, and
\* both the try block and the catch block of part_001 end with
\* requestAnimationFrame(updateVisualization), whose frame takes f's place.
framesAfterTick(threw, f, frames) == frames

\* The animation frame f runs updateVisualization.  On the AnalyserNode pages
\* the pull smooths a new block if the audio thread has rendered one since
\* the last pull, and returns the last data again if not.
UpdateVisualization(f) ==
  /\ f \in pending
  /\ IF LoopOn
       THEN LET g == requestAnimationFrame(pending \cup {animationFrameId}, f)
                threw == page = "analysis" /\ analyzerFails
            IN /\ animationFrameId' = g
               /\ pending' = framesAfterTick(threw, f, pending)
               /\ IF page = "analysis"
                    THEN /\ frequencyValues' =
                              IF threw THEN frequencyValues
                              ELSE publishAnalysis(getFrequencies(binCount, signal))
                         /\ UNCHANGED smoothed
                    ELSE \E fresh \in BOOLEAN :
                           /\ smoothed' = IF fresh THEN smooth(smoothed, signal)
                                          ELSE smoothed
                           /\ frequencyValues' = barsOf[byteOf(smoothed') + 1]
       ELSE /\ pending' = pending \ {f}
            /\ UNCHANGED <<animationFrameId, smoothed, frequencyValues>>
  /\ UNCHANGED <<windowVars, songVars, signal, binCount, analyzerFails>>
  /\ UNCHANGED <<page, phase, pc, audioContext, analyser, audioAnalysis,
                 audioElement, isPlaying, retryTimers, paused, readyState,
                 mediaError, events>>

\* The audio reaching the analyzer changes its magnitude.
SignalChanges(level) ==
  /\ phase = "mounted"
  /\ level # signal
  /\ signal' = level
  /\ UNCHANGED <<page, phase, audioVars, windowVars, songVars, binCount, analyzerFails,
                 frequencyValues>>

\* AudioAnalysis starts or stops throwing (its context is lost or restored).
AnalyzerBreaks ==
  /\ phase = "mounted"
  /\ page = "analysis"
  /\ analyzerFails' = ~analyzerFails
  /\ UNCHANGED <<page, phase, audioVars, windowVars, songVars, signal, binCount,
                 frequencyValues>>

\* ------------------------------------------------------------- monitor
\* The condition of the audioCheckInterval callback.
ProbeDetects ==
  /\ audioElement # 0
  /\ readyState = 0
  /\ isPlaying

\* reconnectAudio: pause the held element, then await initAudio().
ReconnectAudio(c) ==
  InitAudio(c, pausePaused(paused, audioElement),
            pauseEvents(events, paused, audioElement))

\* One run of the audioCheckInterval callback that detects a dead connection
\* (a run that detects nothing changes nothing).
ProbeTick ==
  /\ phase = "mounted"
  /\ page \in ReconnectPages
  /\ ProbeDetects
  /\ Started < MaxInits
  /\ ReconnectAudio(Started + 1)
  /\ UNCHANGED <<page, phase, renderVars, windowVars, songVars>>

\* The function returned by onMount.
Cleanup ==
  /\ phase = "mounted"
  /\ phase' = "destroyed"
  /\ pending' = IF animationFrameId # 0
                  THEN cancelAnimationFrame(animationFrameId, pending)
                  ELSE pending
  /\ paused' = pausePaused(paused, audioElement)
  /\ events' = pauseEvents(events, paused, audioElement)
  /\ audioElement' = IF page = "polling" THEN audioElement ELSE 0
  /\ audioAnalysis' = 0
  /\ audioContext' = IF page = "analyser" THEN 0 ELSE audioContext
  /\ listening' = IF listening = "on" THEN "unlistening" ELSE listening
  /\ songInterval' = FALSE
  /\ UNCHANGED <<page, pc, analyser, animationFrameId, isPlaying, retryTimers,
                 readyState, mediaError, smoothed, renderVars, windowVars,
                 currentSong, inbound, fetching, fetched>>

\* ------------------------------------------------------------- media element
\* The held element receives enough data: readyState rises and, if it is not
\* paused, 'playing' is queued.  A released element receives nothing more:
\* only what it has queued is still delivered.
MediaLoaded ==
  /\ audioElement # 0
  /\ readyState = 0
  /\ ~mediaError
  /\ Len(events[audioElement]) < MaxEvents \/ paused[audioElement]
  /\ readyState' = 4
  /\ events' = IF paused[audioElement] THEN events
               ELSE [events EXCEPT ![audioElement] = Append(@, "playing")]
  /\ UNCHANGED <<windowVars, songVars, renderVars, smoothed>>
  /\ UNCHANGED <<page, phase, pc, audioContext, analyser, audioAnalysis,
                 audioElement, animationFrameId, isPlaying, pending, retryTimers,
                 paused, mediaError>>

\* The connection is lost and the held element falls back to HAVE_NOTHING.
MediaReset ==
  /\ audioElement # 0
  /\ readyState = 4
  /\ readyState' = 0
  /\ UNCHANGED <<windowVars, songVars, renderVars, smoothed>>
  /\ UNCHANGED <<page, phase, pc, audioContext, analyser, audioAnalysis,
                 audioElement, animationFrameId, isPlaying, pending, retryTimers,
                 paused, mediaError, events>>

\* The stream cannot be fetched or decoded: error is set and 'error' is queued
\* (the task that fires it also rejects a pending play() promise).
MediaError ==
  /\ audioElement # 0
  /\ ~mediaError
  /\ Len(events[audioElement]) < MaxEvents
  /\ mediaError' = TRUE
  /\ events' = [events EXCEPT ![audioElement] = Append(@, "error")]
  /\ UNCHANGED <<windowVars, songVars, renderVars, smoothed>>
  /\ UNCHANGED <<page, phase, pc, audioContext, analyser, audioAnalysis,
                 audioElement, animationFrameId, isPlaying, pending, retryTimers,
                 paused, readyState>>

\* The listeners initAudio adds to every element it builds; each assigns the
\* page's one isPlaying.
listener(type, playing) ==
  IF page = "polling" THEN playing ELSE type = "playing"

\* The oldest queued event of element e is dispatched to its listeners.
DispatchEvent(e) ==
  /\ events[e] # <<>>
  /\ isPlaying' = listener(Head(events[e]), isPlaying)
  /\ events' = [events EXCEPT ![e] = Tail(@)]
  /\ UNCHANGED <<windowVars, songVars, renderVars, smoothed>>
  /\ UNCHANGED <<page, phase, pc, audioContext, analyser, audioAnalysis,
                 audioElement, animationFrameId, pending, retryTimers,
                 paused, readyState, mediaError>>

\* ------------------------------------------------------------- window intent
audioFrame == <<page, phase, audioVars, renderVars>>

\* The pin button: setAlwaysOnTop(!isPinned).
PinClick ==
  /\ phase = "mounted"
  /\ Len(bridge) < MaxBridgeCalls
  /\ SetAlwaysOnTop(~isPinned)
  /\ UNCHANGED <<audioFrame, songVars, isMousePassthrough, themeColor,
                 surface, host>>

\* The click-through button: setMousePassthrough(!isMousePassthrough), up to
\* its first await.
PassthroughClick ==
  /\ phase = "mounted"
  /\ Len(bridge) < MaxBridgeCalls
  /\ isMousePassthrough' = ~isMousePassthrough
  /\ bridge' = Append(bridge, [op |-> "passthrough", flag |-> ~isMousePassthrough,
                               color |-> "", at |-> "surface"])
  /\ UNCHANGED <<audioFrame, songVars, isPinned, themeColor, surface, host>>

\* changeThemeColor(color), up to its await.
ChangeThemeColor(color) ==
  /\ phase = "mounted"
  /\ Len(bridge) < MaxBridgeCalls
  /\ themeColor' = color
  /\ bridge' = Append(bridge, [op |-> "theme", flag |-> FALSE, color |-> color,
                               at |-> "invoke"])
  /\ UNCHANGED <<audioFrame, songVars, isPinned, isMousePassthrough, surface, host>>

\* A rejection rolls the local value back to what it was before the call.
localAfterSettle_rollback(ok, flag, local) == IF ok THEN local ELSE ~flag

\* The local value after an awaited call of a bridge operation has settled:
\* the operations have no catch, so a rejection leaves it as it is.
localAfterSettle(ok, flag, local) == local

\* The rejection of the window call is swallowed and the host is told anyway.
afterSurface_swallowed(ok) == "invoke"

\* Where an operation stands once its awaited window call has settled: at
\* its invoke(...) if the call was fulfilled; a rejection is thrown out of the
\* operation, whose invoke(...) is never reached.
afterSurface(ok) == IF ok THEN "invoke" ELSE "rejected"

\* await appWindow.setAlwaysOnTop(flag) / setIgnoreCursorEvents(flag) of the
\* i-th call settles; a rejection rejects the promise of the operation.
SurfaceSettles(i) ==
  /\ i \in 1..Len(bridge)
  /\ bridge[i].at = "surface"
  /\ \E ok \in BOOLEAN :
       /\ bridge' = [bridge EXCEPT ![i].at = afterSurface(ok)]
       /\ surface' =
            IF ~ok THEN surface
            ELSE IF bridge[i].op = "pin"
              THEN [surface EXCEPT !.onTop = <<bridge[i].flag>>]
              ELSE [surface EXCEPT !.ignoreCursor = <<bridge[i].flag>>]
       /\ isPinned' = IF bridge[i].op = "pin"
                        THEN localAfterSettle(ok, bridge[i].flag, isPinned)
                        ELSE isPinned
       /\ isMousePassthrough' =
            IF bridge[i].op = "passthrough"
              THEN localAfterSettle(ok, bridge[i].flag, isMousePassthrough)
              ELSE isMousePassthrough
  /\ UNCHANGED <<audioFrame, songVars, themeColor, host>>

\* await invoke('set_always_on_top' | 'set_mouse_passthrough' |
\* 'change_theme_color') of the i-th call settles.
InvokeSettles(i) ==
  /\ i \in 1..Len(bridge)
  /\ bridge[i].at = "invoke"
  /\ \E ok \in BOOLEAN :
       /\ bridge' = [bridge EXCEPT ![i].at = IF ok THEN "fulfilled" ELSE "rejected"]
       /\ host' =
            IF ~ok THEN host
            ELSE CASE bridge[i].op = "pin" -> [host EXCEPT !.onTop = <<bridge[i].flag>>]
                   [] bridge[i].op = "passthrough" ->
                        [host EXCEPT !.passthrough = <<bridge[i].flag>>]
                   [] bridge[i].op = "theme" -> [host EXCEPT !.color = <<bridge[i].color>>]
       /\ isPinned' = IF bridge[i].op = "pin"
                        THEN localAfterSettle(ok, bridge[i].flag, isPinned)
                        ELSE isPinned
       /\ isMousePassthrough' =
            IF bridge[i].op = "passthrough"
              THEN localAfterSettle(ok, bridge[i].flag, isMousePassthrough)
              ELSE isMousePassthrough
  /\ UNCHANGED <<audioFrame, songVars, themeColor, surface>>

\* ------------------------------------------------------------- metadata
\* currentSong = { title: p.title || 'Unknown Title',
\*                 artist: p.artist || 'Unknown Artist' }
songOf(p) ==
  [title |-> OrElse(p.title, Str("Unknown Title")),
   artist |-> OrElse(p.artist, Str("Unknown Artist"))]

\* The reactive state of the page the handlers may assign.
Local ==
  [currentSong |-> currentSong, themeColor |-> themeColor,
   isPinned |-> isPinned, isMousePassthrough |-> isMousePassthrough]

\* The listener also puts the window intent back to its defaults.
songInfoListener_resets(p, local) ==
  [local EXCEPT !.currentSong = songOf(p), !.themeColor = "#3498db",
                !.isPinned = TRUE, !.isMousePassthrough = FALSE]

\* The callback given to listen('song-info-update'): it assigns currentSong
\* and nothing else.
songInfoListener(p, local) == [local EXCEPT !.currentSong = songOf(p)]

\* The song-info-update listener receives an event with payload p.
SongInfoUpdate(p) ==
  /\ listening # "off"
  /\ inbound' = p
  /\ LET new == songInfoListener(p, Local)
     IN /\ currentSong' = new.currentSong
        /\ themeColor' = new.themeColor
        /\ isPinned' = new.isPinned
        /\ isMousePassthrough' = new.isMousePassthrough
  /\ UNCHANGED <<audioFrame, bridge, surface, host, listening, fetching, fetched,
                 songInterval>>

\* unlisten.then(f => f()) of the cleanup function completes.
Unlisten ==
  /\ listening = "unlistening"
  /\ listening' = "off"
  /\ UNCHANGED <<audioFrame, windowVars, currentSong, inbound, fetching, fetched,
                 songInterval>>

\* The polling interval fires: fetchCurrentSong() starts its fetch.
PollTick ==
  /\ songInterval
  /\ fetching < MaxFetches
  /\ fetching' = fetching + 1
  /\ UNCHANGED <<audioFrame, windowVars, currentSong, inbound, listening, fetched,
                 songInterval>>

\* What a fetch of status-json.xsl may come to: a network failure, a body
\* that is not JSON, the document null, a document without icestats, without
\* source, with an empty source list, with a first source that is null, or
\* with a first source.
Responses ==
  {[kind |-> k, first |-> NoPayload] :
     k \in {"network", "notJson", "nullDocument", "noIcestats", "noSource",
            "emptySource", "nullSource"}}
    \cup {[kind |-> "source", first |-> p] : p \in Payloads}

\* The responses on which a statement of fetchCurrentSong throws: fetch and
\* response.json() reject, data.icestats of null and source.title of null are
\* TypeErrors.
Throws(kind) == kind \in {"network", "notJson", "nullDocument", "nullSource"}

\* The error leaves fetchCurrentSong.
fetchCurrentSongSettles_uncaught(kind) ==
  IF Throws(kind) THEN "rejected" ELSE "fulfilled"

\* How the promise of fetchCurrentSong settles: the whole body is inside
\* try { } catch { console.error }.
fetchCurrentSongSettles(kind) == "fulfilled"

\* A fetchCurrentSong call in flight runs to its end on response r.  The
\* interval is cleared by the cleanup function only.
FetchSettles(r) ==
  /\ fetching > 0
  /\ fetching' = fetching - 1
  /\ fetched' = [kind |-> r.kind, promise |-> fetchCurrentSongSettles(r.kind)]
  /\ IF r.kind = "source"
       THEN /\ inbound' = r.first
            /\ currentSong' = songOf(r.first)
       ELSE UNCHANGED <<inbound, currentSong>>
  /\ UNCHANGED <<audioFrame, windowVars, listening, songInterval>>

\* ------------------------------------------------------------- specification
\* The audio pipeline and its monitor.
Next ==
  \/ OnMount
  \/ \E c \in Calls : AfterClose(c)
  \/ \E c \in Calls : AfterResume(c)
  \/ \E f \in FrameIds : UpdateVisualization(f)
  \/ ProbeTick
  \/ Cleanup
  \/ MediaLoaded
  \/ MediaReset
  \/ MediaError
  \/ \E e \in Elems : DispatchEvent(e)

Spec == Init /\ [][Next]_vars

\* The same with the scheduling the event loop guarantees: a timer that is
\* armed fires, a settled await is resumed, a requested frame runs and a
\* queued event is dispatched.  The network and the host owe nothing.
FairSpec ==
  /\ Spec
  /\ WF_vars(ProbeTick)
  /\ WF_vars(\E c \in Calls : AfterClose(c))
  /\ WF_vars(\E c \in Calls : AfterResume(c))
  /\ WF_vars(\E f \in FrameIds : UpdateVisualization(f))
  /\ WF_vars(\E e \in Elems : DispatchEvent(e))

\* The render loop of one pipeline generation and what it publishes.
RenderNext ==
  \/ OnMount
  \/ \E c \in Calls : AfterResume(c)
  \/ \E f \in FrameIds : UpdateVisualization(f)
  \/ \E level \in Levels : SignalChanges(level)
  \/ AnalyzerBreaks
  \/ Cleanup

RenderSpec == RenderInit /\ [][RenderNext]_vars

\* The window intent among the tasks that might touch it: the operations on
\* it, the inbound handlers, initAudio and the render loop.
IntentNext ==
  \/ OnMount
  \/ \E c \in Calls : AfterResume(c)
  \/ \E f \in FrameIds : UpdateVisualization(f)
  \/ Cleanup
  \/ PinClick
  \/ PassthroughClick
  \/ \E color \in Colors : ChangeThemeColor(color)
  \/ \E p \in Payloads : SongInfoUpdate(p)
  \/ Unlisten
  \/ PollTick
  \/ \E r \in Responses : FetchSettles(r)

IntentSpec == Init /\ [][IntentNext]_vars

\* The window-intent half of the host bridge.
WindowNext ==
  \/ OnMount
  \/ Cleanup
  \/ PinClick
  \/ PassthroughClick
  \/ \E color \in Colors : ChangeThemeColor(color)
  \/ \E i \in 1..MaxBridgeCalls : SurfaceSettles(i)
  \/ \E i \in 1..MaxBridgeCalls : InvokeSettles(i)

WindowSpec == Init /\ [][WindowNext]_vars

\* The metadata half of the host bridge.
MetadataNext ==
  \/ OnMount
  \/ Cleanup
  \/ \E p \in Payloads : SongInfoUpdate(p)
  \/ Unlisten
  \/ PollTick
  \/ \E r \in Responses : FetchSettles(r)

MetadataSpec == Init /\ [][MetadataNext]_vars

\* ------------------------------------------------------------- claims
\* C1: on the AudioAnalysis page, a reconnect that the probe starts while no
\* initAudio call is in flight leaves no frame of an earlier render loop
\* pending, so no earlier loop publishes again before the new one does.
C1_TeardownBeforeCreate ==
  [][(/\ page = "analysis"
      /\ phase = "mounted"
      /\ InFlight = {}
      /\ Started' = Started + 1) => pending' = {}]_vars

\* C2: on the AnalyserNode page with reconnect at most one animation frame
\* for updateVisualization is pending in every reachable state.
C2_OneRenderLoop == page = "analyser" => Cardinality(pending) <= 1

\* C3: a detection starts exactly one initAudio call, no call starts while
\* another is in flight, and no render loop is started alongside a live one.
C3_NoOverlap ==
  [][/\ Started' # Started => Started' = Started + 1 /\ InFlight = {}
     /\ Cardinality(pending') > Cardinality(pending) => pending = {}]_vars

\* C5: when pipeline construction throws in the synchronous part of initAudio
\* (on the pages with reconnectAudio a call ends before its first await only
\* by such a throw) a further reconnectAudio attempt is scheduled: a 5 s timer
\* is armed.
C5_ThrowSchedulesRetry ==
  [][\A c \in Calls :
       (page \in ReconnectPages /\ pc[c] = "idle" /\ pc'[c] = "done")
         => retryTimers' > retryTimers]_vars

\* C6: once the cleanup function has run, no frame is requested, no tick can
\* publish, and no pipeline object is built.
C6_NothingAfterCleanup ==
  [][phase = "destroyed" =>
       /\ pending' \subseteq pending
       /\ pending' # {} => ~LoopOn'
       /\ audioContext' = audioContext
       /\ audioAnalysis' = audioAnalysis
       /\ audioElement' = audioElement]_vars

\* C7: at most one audio element is un-paused in every reachable state.
C7_OnePlaying == Cardinality({e \in Elems : ~paused[e]}) <= 1

\* An element that was playing has been released (its 'pause' is still
\* queued) and its replacement is playing.
C7_Witness ==
  \E e \in Elems :
    /\ audioElement # 0
    /\ e # audioElement
    /\ events[e] # <<>>
    /\ events[e][Len(events[e])] = "pause"
    /\ ~paused[audioElement]

\* C4: while the held element, which has been asked to play, has failed and
\* the page is mounted, a new initAudio call is eventually started (as long
\* as the model's supply of calls lasts).
C4_KeepsReconnecting ==
  \A n \in 0..(MaxInits - 1) :
    (/\ page \in ReconnectPages
     /\ phase = "mounted"
     /\ audioElement # 0
     /\ ~paused[audioElement]
     /\ mediaError
     /\ Started = n) ~> (Started > n \/ phase = "destroyed")

\* The setAlwaysOnTop calls made so far, in call order: the one of onMount,
\* then one per click of the pin button.
PinCalls == SelectSeq(bridge, LAMBDA r : r.op = "pin")

\* C8: isPinned is the value the latest setAlwaysOnTop call assigned, whatever
\* became of the awaited calls, and the value after any call is again the
\* value after the second call that follows it.
C8_TwoTogglesRestore ==
  /\ PinCalls # <<>> => isPinned = PinCalls[Len(PinCalls)].flag
  /\ \A k \in 1..Len(PinCalls) :
       k + 2 <= Len(PinCalls) => PinCalls[k + 2].flag = PinCalls[k].flag

\* Two toggles have been made, the first of them was rejected, and isPinned
\* is back at the value it had before them.
C8_Witness ==
  /\ Len(PinCalls) >= 3
  /\ PinCalls[2].at = "rejected"
  /\ isPinned = PinCalls[1].flag

\* C9: no call of setAlwaysOnTop, setMousePassthrough or changeThemeColor ends
\* in a rejected promise.
C9_NoRejectedOperation ==
  \A i \in 1..Len(bridge) : bridge[i].at # "rejected"

\* C10: after a metadata payload has been handled, title is the payload's
\* title if that is a non-empty string and 'Unknown Title' otherwise, artist
\* likewise with 'Unknown Artist', and both are strings.
C10_Defaulting ==
  inbound # NoPayload =>
    /\ currentSong.title =
         IF inbound.title.type = "string" /\ inbound.title.value # ""
           THEN inbound.title ELSE Str("Unknown Title")
    /\ currentSong.artist =
         IF inbound.artist.type = "string" /\ inbound.artist.value # ""
           THEN inbound.artist ELSE Str("Unknown Artist")
    /\ currentSong.title.type = "string"
    /\ currentSong.artist.type = "string"

\* The payload {title: null, artist: 'X'} has been handled.
C10_Witness ==
  /\ inbound = [title |-> Null, artist |-> Str("X")]
  /\ currentSong = [title |-> Str("Unknown Title"), artist |-> Str("X")]

\* C11: on the AudioAnalysis page the published vector has exactly 64 entries
\* in every reachable state, and for an analyzer of n bins it is the first 64
\* native values if n >= 64, and the n native values followed by 64 - n zeros
\* if n < 64 (the native values being those of silence or of a signal).
C11_PadTruncate ==
  page = "analysis" =>
    /\ Len(frequencyValues) = 64
    /\ \E level \in Levels :
         \A i \in 1..64 :
           frequencyValues[i] =
             IF i <= binCount THEN getFrequencies(binCount, level)[i] ELSE 0

\* A tick has published the vector of an analyzer with fewer than 64 bins
\* that hears a signal.
C11_Witness ==
  /\ page = "analysis"
  /\ binCount > 0
  /\ binCount < 64
  /\ frequencyValues[binCount] # 0
  /\ frequencyValues[64] = 0

\* C12: on the polling page a fetchCurrentSong call that meets a network
\* failure, a body that is not JSON, a missing icestats or source field or an
\* empty source list (or any other response without a usable first source)
\* ends with its promise fulfilled, leaves currentSong as it was and leaves
\* the polling interval armed.
C12_FetchNeverPropagates ==
  [][(fetching' < fetching /\ fetched'.kind # "source") =>
       /\ fetched'.promise = "fulfilled"
       /\ currentSong' = currentSong
       /\ songInterval' = songInterval]_vars

\* A song has been shown, a later fetch has failed on the network while the
\* page is mounted, and the interval is still armed.
C12_Witness ==
  /\ fetched.kind = "network"
  /\ inbound # NoPayload
  /\ currentSong = songOf(inbound)
  /\ songInterval

C14_SmoothingMonotone ==
  [][page = "analyser" =>
       \A k \in 1..64 :
         LET steady == IF signal > 255 THEN 255 ELSE signal
             next == (8 * smoothed + 2 * signal) \div 10
         IN /\ frequencyValues[k] <= steady =>
                 /\ frequencyValues[k] <= frequencyValues'[k]
                 /\ frequencyValues'[k] <= steady
            /\ frequencyValues[k] >= steady =>
                 /\ frequencyValues[k] >= frequencyValues'[k]
                 /\ frequencyValues'[k] >= steady
            /\ \/ frequencyValues'[k] = frequencyValues[k]
               \/ frequencyValues'[k] = IF next > 255 THEN 255 ELSE next]_vars

\* After silence the loudest tone is heard and the bars are on their way up:
\* above zero and below the analyser's ceiling.
C14_Witness ==
  /\ page = "analyser"
  /\ signal = MaxLevel
  /\ smoothed > 0
  /\ frequencyValues[64] > 0
  /\ frequencyValues[64] < 255

\* C15: for setAlwaysOnTop and setMousePassthrough the local variable holds
\* the new value when the window call is issued, the operation reaches its
\* invoke only from a window call that was fulfilled and had applied that
\* value to the window, the host takes a value only from an operation that
\* stands at its invoke, and an operation that was rejected goes no further.
C15_SurfaceBeforeHost ==
  [][/\ \A i \in 1..Len(bridge') :
          bridge'[i].op \in {"pin", "passthrough"} =>
            /\ i > Len(bridge) =>
                 /\ bridge'[i].at = "surface"
                 /\ bridge'[i].flag = IF bridge'[i].op = "pin"
                                        THEN isPinned' ELSE isMousePassthrough'
            /\ (i <= Len(bridge) /\ bridge'[i].at # bridge[i].at) =>
                 \/ /\ bridge[i].at = "surface"
                    /\ bridge'[i].at = "rejected"
                    /\ host' = host
                 \/ /\ bridge[i].at = "surface"
                    /\ bridge'[i].at = "invoke"
                    /\ host' = host
                    /\ <<bridge[i].flag>> = IF bridge[i].op = "pin"
                                              THEN surface'.onTop
                                              ELSE surface'.ignoreCursor
                 \/ /\ bridge[i].at = "invoke"
                    /\ bridge'[i].at \in {"fulfilled", "rejected"}
     /\ host'.onTop # host.onTop =>
          \E i \in 1..Len(bridge) :
            /\ bridge[i].op = "pin"
            /\ bridge[i].at = "invoke"
            /\ host'.onTop = <<bridge[i].flag>>
     /\ host'.passthrough # host.passthrough =>
          \E i \in 1..Len(bridge) :
            /\ bridge[i].op = "passthrough"
            /\ bridge[i].at = "invoke"
            /\ host'.passthrough = <<bridge[i].flag>>]_vars

\* The pin of onMount has gone through the window and the host; a
\* click-through toggle was rejected by the window and the host has heard
\* nothing of it.
C15_Witness ==
  /\ Len(bridge) >= 2
  /\ bridge[1].at = "fulfilled"
  /\ surface.onTop = <<TRUE>>
  /\ host.onTop = <<TRUE>>
  /\ bridge[2].op = "passthrough"
  /\ bridge[2].at = "rejected"
  /\ isMousePassthrough
  /\ surface.ignoreCursor = <<>>
  /\ host.passthrough = <<>>

\* C16: when every host-bridge call made so far has been fulfilled (none is
\* pending, none was rejected), the pinned value the host received last is the
\* local isPinned.
C16_HostEventuallyConsistent ==
  (/\ PinCalls # <<>>
   /\ \A i \in 1..Len(bridge) : bridge[i].at = "fulfilled")
    => host.onTop = <<isPinned>>

\* C17: while the page is mounted, an event dispatched from an element that
\* initAudio has replaced (audioElement is another element) leaves isPlaying
\* as it is.
C17_StaleEventsIgnored ==
  [][\A e \in Elems :
       (/\ phase = "mounted"
        /\ audioElement # 0
        /\ e # audioElement
        /\ events[e] # <<>>
        /\ events'[e] = Tail(events[e]))
         => isPlaying' = isPlaying]_vars

\* C18: on the AudioAnalysis page a tick that runs with a non-null analyzer
\* (a step that changes nothing but the frame bookkeeping and the published
\* vector) leaves as many frames pending as there were, the one it has
\* requested being the one animationFrameId names, whether or not the pull
\* threw; and the one loop of a pipeline generation never has more than one
\* frame pending.
C18_OneSuccessorPerTick ==
  [][page = "analysis" =>
       /\ (/\ audioAnalysis # 0
           /\ pending # {}
           /\ UNCHANGED <<phase, pc, audioContext, analyser, audioAnalysis,
                          audioElement, isPlaying, retryTimers, paused,
                          readyState, mediaError, events, signal, binCount,
                          analyzerFails, windowVars, songVars>>)
            => /\ Cardinality(pending') = Cardinality(pending)
               /\ animationFrameId' \in pending'
       /\ Cardinality(pending') <= 1]_vars

\* A tick has published a vector, the analyzer has since started to throw,
\* and the loop still has its frame pending.
C18_Witness ==
  /\ page = "analysis"
  /\ analyzerFails
  /\ frequencyValues[1] # 0
  /\ pending = {animationFrameId}
====
